---- MODULE Spec2Model ----
(***************************************************************************)
(* Model of camel/model_backend.py: the ModelFactory dispatcher and the    *)
(* three backends (OpenAIModel, ErnieModel, StubModel).                    *)
(*                                                                         *)
(* A backend is held by an execution context (a caller thread).  Config    *)
(* mappings live on a heap (configs) and a backend holds a reference to    *)
(* one, as OpenAIModel.__init__ stores the caller's dict without copying.  *)
(***************************************************************************)
EXTENDS Integers, Sequences, FiniteSets, TLC

VARIABLES
    openai_new_api,  \* module-level flag read from the environment at import
    configs,         \* heap of config dicts: CfgIds -> [key -> value]
    backend,         \* per context: the backend it holds, or NoBackend
    lastCreate,      \* per context: argument and outcome of its last create call
    pc,              \* per context: "idle", or "call" inside OpenAIModel.run
    messages,        \* per context: the message list it passes as kwargs["messages"]
    tokens,          \* per context: len(encoding.encode(string)) for that list
    local,           \* per context: the locals of its last OpenAIModel.run call
    sent,            \* per context: the vendor request issued by the last run of its backend
    result           \* per context: the outcome of the last run of its backend

vars == <<openai_new_api, configs, backend, lastCreate, pc, messages, tokens, local,
          sent, result>>

-----------------------------------------------------------------------------
(* Bounds and input sets *)

MaxLen == 3      \* longest message list given to the converter
ShortLen == 2    \* longest message list given to run in the full state machine

Threads == {"t1", "t2"}
CfgIds == {"c1", "c2"}

Roles == {"system", "user", "assistant"}
Contents == {"Hi", "How are you?", "Got it."}
Messages == [role : Roles, content : Contents]

RECURSIVE SeqsUpTo(_, _)
SeqsUpTo(S, n) ==
    IF n = 0 THEN {<<>>}
    ELSE LET shorter == SeqsUpTo(S, n - 1)
         IN  shorter \cup {Append(s, x) : s \in {q \in shorter : Len(q) = n - 1}, x \in S}

\* message lists given to the converter
ConverterInputs == SeqsUpTo(Messages, MaxLen)

\* message lists given to run in the full state machine
PlainMessages == {[role |-> "user", content |-> "Hi"]}
RunInputs == SeqsUpTo(PlainMessages, ShortLen)

\* len(encoding.encode(string)): the tokenizer is a vendor library, so the
\* count it gives for a message list is an input, fixed per list; the empty
\* string encodes to no token.
TokenCounts == {10, 40000}
EncodedLens(msgs) == IF Len(msgs) = 0 THEN {0} ELSE TokenCounts

NoBackend == [cls |-> "none"]
NoCall == [api |-> "none"]
NoResult == [kind |-> "none"]
NoLocal == [fn |-> "none"]

-----------------------------------------------------------------------------
(* camel.typing.ModelType: the members named by ModelFactory.create *)

GPTFamily == {"GPT_3_5_TURBO", "GPT_3_5_TURBO_NEW", "GPT_4", "GPT_4_32k",
              "GPT_4_TURBO", "GPT_4_TURBO_V"}
None == "None"
ModelType == GPTFamily \cup {"Ernie", "STUB"}
\* identifiers that are no member named by the factory
OtherIds == {"gpt-4", "LLAMA"}
Identifiers == ModelType \cup {None} \cup OtherIds

\* ModelType.<member>.value
ModelTypeValue ==
    [m \in ModelType |->
        CASE m = "GPT_3_5_TURBO"     -> "gpt-3.5-turbo-16k-0613"
          [] m = "GPT_3_5_TURBO_NEW" -> "gpt-3.5-turbo-16k"
          [] m = "GPT_4"             -> "gpt-4"
          [] m = "GPT_4_32k"         -> "gpt-4-32k"
          [] m = "GPT_4_TURBO"       -> "gpt-4-1106-preview"
          [] m = "GPT_4_TURBO_V"     -> "gpt-4-1106-vision-preview"
          [] m = "Ernie"             -> "Ernie"
          [] m = "STUB"              -> "stub"]

-----------------------------------------------------------------------------
(* ErnieModel.messages_reformat_as_ernie *)

RoleChars ==
    [r \in Roles |->
        CASE r = "system"    -> <<"s", "y", "s", "t", "e", "m">>
          [] r = "user"      -> <<"u", "s", "e", "r">>
          [] r = "assistant" -> <<"a", "s", "s", "i", "s", "t", "a", "n", "t">>]

\* "ass" in role
ContainsAss(role) ==
    LET cs == RoleChars[role]
    IN  \E i \in 1..(Len(cs) - 2) : cs[i] = "a" /\ cs[i + 1] = "s" /\ cs[i + 2] = "s"

\* ErnieLoopBody with the flag never raised after a user turn
ErnieLoopBody_FlagNeverSet(message, st) ==
    IF ContainsAss(message.role)
    THEN [flag |-> FALSE,
          out  |-> Append(st.out, [role |-> "assistant", content |-> message.content])]
    ELSE [flag |-> FALSE,
          out  |-> Append(st.out, [role |-> "user", content |-> message.content])]

\* ErnieLoopBody with the flag not lowered by an assistant turn
ErnieLoopBody_FlagNotReset(message, st) ==
    IF ContainsAss(message.role)
    THEN [flag |-> st.flag,
          out  |-> Append(st.out, [role |-> "assistant", content |-> message.content])]
    ELSE [flag |-> TRUE,
          out  |-> Append(IF st.flag
                          THEN Append(st.out, [role |-> "assistant", content |-> "Got it."])
                          ELSE st.out,
                          [role |-> "user", content |-> message.content])]

\* One iteration of the for loop: st = [flag, out] is
\* (last_message_be_user_flag, ernie_messages).
ErnieLoopBody(message, st) ==
    LET role == message.role
        content == message.content
    IN  IF ContainsAss(role)
        THEN [flag |-> FALSE,
              out  |-> Append(st.out, [role |-> "assistant", content |-> content])]
        ELSE LET filled == IF st.flag = TRUE
                           THEN Append(st.out, [role |-> "assistant", content |-> "Got it."])
                           ELSE st.out
             IN  [flag |-> TRUE,
                  out  |-> Append(filled, [role |-> "user", content |-> content])]

RECURSIVE ErnieLoop(_, _, _)
ErnieLoop(msgs, i, st) ==
    IF i > Len(msgs) THEN st
    ELSE ErnieLoop(msgs, i + 1, ErnieLoopBody(msgs[i], st))

messages_reformat_as_ernie(msgs) ==
    ErnieLoop(msgs, 1, [flag |-> FALSE, out |-> <<>>]).out

-----------------------------------------------------------------------------
(* ModelFactory.create *)

NoAttr == "unset"

OpenAIModel(model_type, cfg) ==
    [cls |-> "OpenAIModel", model_type |-> model_type, model_config_dict |-> cfg]

ErnieModel(model_type, cfg) ==
    [cls |-> "ErnieModel", model_type |-> model_type, model_config_dict |-> cfg]

\* StubModel.__init__(*args, **kwargs) stores nothing
StubModel(model_type, cfg) ==
    [cls |-> "StubModel", model_type |-> NoAttr, model_config_dict |-> NoAttr]

default_model_type == "GPT_3_5_TURBO"

\* model_class with the unset sentinel left out of the primary set
model_class_NoSentinel(model_type) ==
    IF model_type \in GPTFamily THEN "OpenAIModel"
    ELSE IF model_type = "Ernie" THEN "ErnieModel"
    ELSE IF model_type = "STUB" THEN "StubModel"
    ELSE "ValueError"

\* the if / elif chain choosing model_class
model_class(model_type) ==
    IF model_type \in GPTFamily \cup {None} THEN "OpenAIModel"
    ELSE IF model_type = "Ernie" THEN "ErnieModel"
    ELSE IF model_type = "STUB" THEN "StubModel"
    ELSE "ValueError"

\* the outcome of ModelFactory.create(model_type, model_config_dict)
create(model_type, cfg) ==
    LET cls == model_class(model_type)
        mt  == IF model_type = None THEN default_model_type ELSE model_type
    IN  IF cls = "ValueError"
        THEN [arg |-> model_type, outcome |-> "ValueError", ret |-> NoBackend]
        ELSE [arg |-> model_type, outcome |-> "returned",
              ret |-> CASE cls = "OpenAIModel" -> OpenAIModel(mt, cfg)
                        [] cls = "ErnieModel"  -> ErnieModel(mt, cfg)
                        [] cls = "StubModel"   -> StubModel(mt, cfg)]

-----------------------------------------------------------------------------
(* OpenAIModel.run *)

GapPerMessage == 15

NewApiTokenMap ==
    ("gpt-3.5-turbo" :> 4096) @@ ("gpt-3.5-turbo-16k" :> 16384) @@
    ("gpt-3.5-turbo-0613" :> 4096) @@ ("gpt-3.5-turbo-16k-0613" :> 16384) @@
    ("gpt-4" :> 8192) @@ ("gpt-4-0613" :> 8192) @@ ("gpt-4-32k" :> 32768) @@
    ("gpt-4-1106-preview" :> 4096) @@ ("gpt-4-1106-vision-preview" :> 4096)

OldApiTokenMap ==
    ("gpt-3.5-turbo" :> 4096) @@ ("gpt-3.5-turbo-16k" :> 16384) @@
    ("gpt-3.5-turbo-0613" :> 4096) @@ ("gpt-3.5-turbo-16k-0613" :> 16384) @@
    ("gpt-4" :> 8192) @@ ("gpt-4-0613" :> 8192) @@ ("gpt-4-32k" :> 32768)

\* the table the branch taken under the API mode consults
num_max_token_map(new_api) == IF new_api THEN NewApiTokenMap ELSE OldApiTokenMap

\* dict[key] = value
DictSet(d, key, value) ==
    [k \in DOMAIN d \cup {key} |-> IF k = key THEN value ELSE d[k]]

\* num_prompt_tokens: token count of the joined contents plus the gap
PromptTokens(msgs, encoded_len) == encoded_len + GapPerMessage * Len(msgs)

\* OpenAIBudget with the lookup falling back to a default window
OpenAIBudget_DefaultWindow(self, cfgs, new_api, num_prompt_tokens) ==
    LET map == num_max_token_map(new_api)
        key == ModelTypeValue[self.model_type]
        num_max_token == IF key \in DOMAIN map THEN map[key] ELSE map["gpt-3.5-turbo"]
        num_max_completion_tokens == num_max_token - num_prompt_tokens
    IN  [raised |-> FALSE,
         configs |-> [cfgs EXCEPT ![self.model_config_dict] =
                          DictSet(@, "max_tokens", num_max_completion_tokens)],
         num_max_completion_tokens |-> num_max_completion_tokens]

\* Lines 98-111 (new API) and 130-141 (old API): look the window up, compute
\* the completion budget and store it in the config the backend refers to.
\* A missing key raises KeyError at the lookup, before the store.
OpenAIBudget(self, cfgs, new_api, num_prompt_tokens) ==
    LET map == num_max_token_map(new_api)
        key == ModelTypeValue[self.model_type]
    IN  IF key \notin DOMAIN map
        THEN [raised |-> TRUE, configs |-> cfgs, num_max_completion_tokens |-> 0]
        ELSE LET num_max_token == map[key]
                 num_max_completion_tokens == num_max_token - num_prompt_tokens
             IN  [raised |-> FALSE,
                  configs |-> [cfgs EXCEPT ![self.model_config_dict] =
                                   DictSet(@, "max_tokens", num_max_completion_tokens)],
                  num_max_completion_tokens |-> num_max_completion_tokens]

\* The keyword arguments of the vendor call: model=self.model_type.value and
\* **self.model_config_dict, read when the call is made.
OpenAIRequest(self, cfgs) ==
    [api |-> "openai", model |-> ModelTypeValue[self.model_type],
     config |-> cfgs[self.model_config_dict]]

Usage == [prompt_tokens |-> 1, completion_tokens |-> 1, total_tokens |-> 2]
Choice(text) ==
    [index |-> 0, message |-> [role |-> "assistant", content |-> text],
     finish_reason |-> "stop"]
ReplyTexts == {"ok", "fine"}

\* What the vendor may answer: an object of the expected type (ChatCompletion /
\* dict) or another one, with or without usage, with or without choices; or
\* the call raises.
VendorBodies ==
    {[id |-> "chatcmpl-1", created |-> 1, usage |-> Usage, choices |-> <<Choice(x)>>] :
        x \in ReplyTexts}
    \cup {[id |-> "chatcmpl-1", created |-> 1, usage |-> Usage, choices |-> <<>>]}
    \cup {[id |-> "chatcmpl-1", created |-> 1, choices |-> <<Choice("ok")>>]}
OpenAIReplies ==
    [raises : {FALSE}, expected_type : BOOLEAN, body : VendorBodies]
    \cup {[raises |-> TRUE]}

Returned(value) == [kind |-> "returned", value |-> value]
Raised(error, at) == [kind |-> "raised", error |-> error, at |-> at]

\* Lines 116-128 / 146-158: read the usage counts, check the type, return.
OpenAIReceive(new_api, reply) ==
    IF reply.raises THEN Raised("VendorError", "create")
    ELSE IF "usage" \notin DOMAIN reply.body
    THEN Raised(IF new_api THEN "AttributeError" ELSE "KeyError", "usage")
    ELSE IF ~reply.expected_type
    THEN Raised("RuntimeError", "isinstance")
    ELSE Returned(reply.body)

-----------------------------------------------------------------------------
(* ErnieModel.run and StubModel.run *)

\* erniebot.ChatCompletion.create either raises or answers with a result text
ErnieReplies == [raises : {FALSE}, text : ReplyTexts] \cup {[raises |-> TRUE]}

ErnieRequest(ernie_messages) ==
    [api |-> "erniebot", model |-> "ernie-3.5", messages |-> ernie_messages]

result_format_as_openai(text) ==
    [id |-> "xxxxxxxxxxxxxxxxxxxxx", object |-> "chat.completion", created |-> 1,
     model |-> "Ernie",
     usage |-> [prompt_tokens |-> 1, completion_tokens |-> 1, total_tokens |-> 1],
     choices |-> << [message |-> [role |-> "assistant", content |-> text],
                     finish_reason |-> "stop", index |-> 0] >>]

\* Lines 243-247: the reshaped reply is a dict, so the type check passes.
ErnieReceive(reply) ==
    IF reply.raises THEN Raised("VendorError", "create")
    ELSE Returned(result_format_as_openai(reply.text))

ARBITRARY_STRING == "Lorem Ipsum"

\* StubResponse echoing the last message it was given
StubResponse_Echo(msgs) ==
    [id |-> "stub_model_id", usage |-> <<>>,
     choices |-> << [finish_reason |-> "stop",
                     message |-> [content |-> IF Len(msgs) = 0 THEN "Lorem Ipsum"
                                              ELSE msgs[Len(msgs)].content,
                                  role |-> "assistant"]] >>]

\* the dict StubModel.run builds; usage=dict() is the empty mapping
StubResponse(msgs) ==
    [id |-> "stub_model_id", usage |-> <<>>,
     choices |-> << [finish_reason |-> "stop",
                     message |-> [content |-> ARBITRARY_STRING, role |-> "assistant"]] >>]

\* the vendor request StubModel.run issues: none
StubRequest(msgs) == NoCall

-----------------------------------------------------------------------------
(* State machine *)

InitialConfigs == ("c1" :> ("n" :> 1)) @@ ("c2" :> (("n" :> 1) @@ ("max_tokens" :> 256)))

NoCreate == [arg |-> None, outcome |-> "none", ret |-> NoBackend]

\* what every specification starts from, given the contexts' backends
Start(creates) ==
    /\ openai_new_api \in BOOLEAN
    /\ configs = InitialConfigs
    /\ lastCreate = creates
    /\ backend = [t \in Threads |-> creates[t].ret]
    /\ pc = [t \in Threads |-> "idle"]
    /\ local = [t \in Threads |-> NoLocal]
    /\ sent = [t \in Threads |-> NoCall]
    /\ result = [t \in Threads |-> NoResult]

Init ==
    /\ Start([t \in Threads |-> NoCreate])
    /\ \E m \in RunInputs : messages = [t \in Threads |-> IF t = "t1" THEN m ELSE <<>>]
    /\ \E k \in EncodedLens(messages["t1"]) :
         tokens = [t \in Threads |-> IF t = "t1" THEN k ELSE 0]

\* backend = ModelFactory.create(model_type, model_config_dict)
Create(t) ==
    /\ pc[t] = "idle"
    /\ \E model_type \in Identifiers, cfg \in CfgIds :
         LET r == create(model_type, cfg)
         IN  /\ lastCreate' = [lastCreate EXCEPT ![t] = r]
             /\ IF r.outcome = "returned"
                THEN \* the context now holds a backend that has not run yet
                     /\ backend' = [backend EXCEPT ![t] = r.ret]
                     /\ local' = [local EXCEPT ![t] = NoLocal]
                     /\ sent' = [sent EXCEPT ![t] = NoCall]
                     /\ result' = [result EXCEPT ![t] = NoResult]
                ELSE UNCHANGED <<backend, local, sent, result>>
    /\ UNCHANGED <<openai_new_api, configs, pc, messages, tokens>>

\* OpenAIModel.run up to the store of max_tokens (lines 80-111 / 80-141)
OpenAIRunBudget(t) ==
    /\ pc[t] = "idle"
    /\ backend[t].cls = "OpenAIModel"
    /\ LET num_prompt_tokens == PromptTokens(messages[t], tokens[t])
           b == OpenAIBudget(backend[t], configs, openai_new_api, num_prompt_tokens)
       IN  /\ configs' = b.configs
           /\ sent' = [sent EXCEPT ![t] = NoCall]
           /\ IF b.raised
              THEN /\ pc' = pc
                   /\ local' = [local EXCEPT ![t] =
                          [fn |-> "OpenAIModel.run",
                           num_prompt_tokens |-> num_prompt_tokens]]
                   /\ result' = [result EXCEPT ![t] =
                          Raised("KeyError", "num_max_token_map")]
              ELSE /\ pc' = [pc EXCEPT ![t] = "call"]
                   /\ local' = [local EXCEPT ![t] =
                          [fn |-> "OpenAIModel.run",
                           num_prompt_tokens |-> num_prompt_tokens,
                           num_max_completion_tokens |-> b.num_max_completion_tokens]]
                   /\ result' = [result EXCEPT ![t] = NoResult]
    /\ UNCHANGED <<openai_new_api, backend, lastCreate, messages, tokens>>

\* OpenAIModel.run from the vendor call to the return (lines 113-128 / 143-158)
OpenAIRunCall(t) ==
    /\ pc[t] = "call"
    /\ sent' = [sent EXCEPT ![t] = OpenAIRequest(backend[t], configs)]
    /\ \E reply \in OpenAIReplies :
         result' = [result EXCEPT ![t] = OpenAIReceive(openai_new_api, reply)]
    /\ pc' = [pc EXCEPT ![t] = "idle"]
    /\ UNCHANGED <<openai_new_api, configs, backend, lastCreate, messages, tokens, local>>

\* ErnieModel.run (lines 220-247)
ErnieRun(t) ==
    /\ pc[t] = "idle"
    /\ backend[t].cls = "ErnieModel"
    /\ LET ernie_messages == messages_reformat_as_ernie(messages[t])
       IN  sent' = [sent EXCEPT ![t] = ErnieRequest(ernie_messages)]
    /\ \E reply \in ErnieReplies :
         result' = [result EXCEPT ![t] = ErnieReceive(reply)]
    /\ UNCHANGED <<openai_new_api, configs, backend, lastCreate, pc, messages, tokens, local>>

\* StubModel.run (lines 256-266)
StubRun(t) ==
    /\ pc[t] = "idle"
    /\ backend[t].cls = "StubModel"
    /\ sent' = [sent EXCEPT ![t] = StubRequest(messages[t])]
    /\ result' = [result EXCEPT ![t] = Returned(StubResponse(messages[t]))]
    /\ UNCHANGED <<openai_new_api, configs, backend, lastCreate, pc, messages, tokens, local>>

\* One execution context, as the layer is meant to be used.
Next ==
    \E t \in {"t1"} :
        \/ Create(t)
        \/ OpenAIRunBudget(t)
        \/ OpenAIRunCall(t)
        \/ ErnieRun(t)
        \/ StubRun(t)

Spec == Init /\ [][Next]_vars

\* Two execution contexts, each holding a primary backend it obtained from the
\* factory, running concurrently.
InitConc ==
    /\ \E creates \in [Threads -> {create(m, c) : m \in GPTFamily \cup {None}, c \in CfgIds}] :
         Start(creates)
    /\ messages \in [Threads -> RunInputs]
    /\ tokens \in [Threads -> TokenCounts \cup {0}]
    /\ \A t \in Threads : tokens[t] \in EncodedLens(messages[t])

NextConc ==
    \E t \in Threads :
        \/ OpenAIRunBudget(t)
        \/ OpenAIRunCall(t)

SpecConc == InitConc /\ [][NextConc]_vars

\* The converter: one context holding the alternate-provider backend.
InitErnie ==
    /\ \E c \in CfgIds :
         Start([t \in Threads |-> IF t = "t1" THEN create("Ernie", c) ELSE NoCreate])
    /\ \E m \in ConverterInputs : messages = [t \in Threads |-> IF t = "t1" THEN m ELSE <<>>]
    /\ tokens = [t \in Threads |-> 0]

NextErnie == ErnieRun("t1")

SpecErnie == InitErnie /\ [][NextErnie]_vars

-----------------------------------------------------------------------------
(* Properties *)

ErnieSent(t) == sent[t].api = "erniebot"
OpenAISent(t) == sent[t].api = "openai"
NonAssistant(m) == m.role # "assistant"

\* C1: the converter's output never holds two adjacent turns of role "user",
\* whatever the input list (the empty list included).
C1_NoAdjacentUserTurns ==
    \A t \in Threads :
        ErnieSent(t) =>
            \A i \in 1..(Len(sent[t].messages) - 1) :
                ~(sent[t].messages[i].role = "user" /\ sent[t].messages[i + 1].role = "user")

\* C1's case: a list of MaxLen messages with two non-assistant neighbours was converted
C1_Witness ==
    \E t \in Threads :
        /\ ErnieSent(t)
        /\ Len(messages[t]) = MaxLen
        /\ \E i \in 1..(MaxLen - 1) :
             NonAssistant(messages[t][i]) /\ NonAssistant(messages[t][i + 1])

\* C2: for a non-empty input list the first turn of the converter's output is
\* not an assistant turn.
C2_NoLeadingAssistant ==
    \A t \in Threads :
        (ErnieSent(t) /\ Len(messages[t]) > 0) => sent[t].messages[1].role # "assistant"

Filler == [role |-> "assistant", content |-> "Got it."]
Turn(m) == [role |-> IF m.role = "assistant" THEN "assistant" ELSE "user",
            content |-> m.content]

\* the turns the claim prescribes for msgs[i..]
RECURSIVE ExpectedTurns(_, _)
ExpectedTurns(msgs, i) ==
    IF i > Len(msgs) THEN <<>>
    ELSE (IF i > 1 /\ NonAssistant(msgs[i - 1]) /\ NonAssistant(msgs[i])
          THEN <<Filler>> ELSE <<>>)
         \o <<Turn(msgs[i])>> \o ExpectedTurns(msgs, i + 1)

HiHowAreYou == << [role |-> "user", content |-> "Hi"],
                  [role |-> "user", content |-> "How are you?"] >>

\* C3: the converter returns one turn per message, in order and with the same
\* content, assistant for an assistant message and user otherwise, with one
\* filler turn before m_i exactly when i > 0 and m_i-1, m_i are both
\* non-assistant; nothing else is added or dropped, the input list is left as
\* it was, and [user Hi, user How are you?] gives [user Hi, filler, user How are you?].
C3_ExactOutput ==
    /\ [](\A t \in Threads :
            ErnieSent(t) =>
                /\ sent[t].messages = ExpectedTurns(messages[t], 1)
                /\ messages[t] = HiHowAreYou =>
                       sent[t].messages = <<HiHowAreYou[1], Filler, HiHowAreYou[2]>>)
    /\ [][messages' = messages]_vars

\* C3's case: a list mixing an assistant turn and two non-assistant neighbours
C3_Witness ==
    \E t \in Threads :
        /\ ErnieSent(t)
        /\ Len(messages[t]) = MaxLen
        /\ ~NonAssistant(messages[t][1])
        /\ NonAssistant(messages[t][2]) /\ NonAssistant(messages[t][3])
        /\ Len(sent[t].messages) = MaxLen + 1

\* C4: the max_tokens sent to the vendor is the model's window minus the
\* estimated prompt tokens, replaces what the config held, and is positive.
C4_BudgetPositive ==
    \A t \in Threads :
        OpenAISent(t) =>
            /\ "max_tokens" \in DOMAIN sent[t].config
            /\ sent[t].config["max_tokens"] =
                   num_max_token_map(openai_new_api)[sent[t].model]
                   - PromptTokens(messages[t], tokens[t])
            /\ sent[t].config["max_tokens"] > 0

\* C5: create maps each GPT-family identifier to an OpenAIModel holding it,
\* the unset sentinel to an OpenAIModel holding GPT_3_5_TURBO, Ernie to an
\* ErnieModel, STUB to a StubModel, and fails with ValueError, returning no
\* backend, on every other identifier.
C5_FactoryTotal ==
    \A t \in Threads :
        LET r == lastCreate[t]
        IN  r.outcome # "none" =>
              /\ r.arg \in GPTFamily =>
                     /\ r.outcome = "returned" /\ r.ret.cls = "OpenAIModel"
                     /\ r.ret.model_type = r.arg /\ backend[t] = r.ret
              /\ r.arg = None =>
                     /\ r.outcome = "returned" /\ r.ret.cls = "OpenAIModel"
                     /\ r.ret.model_type = "GPT_3_5_TURBO" /\ r.ret.model_type # None
                     /\ backend[t] = r.ret
              /\ r.arg = "Ernie" =>
                     r.outcome = "returned" /\ r.ret.cls = "ErnieModel" /\ backend[t] = r.ret
              /\ r.arg = "STUB" =>
                     r.outcome = "returned" /\ r.ret.cls = "StubModel" /\ backend[t] = r.ret
              /\ r.arg \notin GPTFamily \cup {None, "Ernie", "STUB"} =>
                     r.outcome = "ValueError" /\ r.ret = NoBackend

\* C5's case: the unset sentinel was dispatched to a primary backend
C5_Witness ==
    \E t \in Threads :
        /\ lastCreate[t].arg = None
        /\ lastCreate[t].outcome = "returned"
        /\ backend[t].cls = "OpenAIModel"

\* C6: StubModel.run issues no vendor call and returns one choice with
\* finish_reason "stop", role "assistant" and content "Lorem Ipsum", whatever
\* it and the constructor were given.
C6_StubFixedResponse ==
    \A t \in Threads :
        (backend[t].cls = "StubModel" /\ result[t] # NoResult) =>
            /\ sent[t] = NoCall
            /\ result[t].kind = "returned"
            /\ Len(result[t].value.choices) = 1
            /\ result[t].value.choices[1].finish_reason = "stop"
            /\ result[t].value.choices[1].message = [role |-> "assistant",
                                                     content |-> "Lorem Ipsum"]

\* C6's case: the stub ran on a non-empty message list
C6_Witness ==
    \E t \in Threads :
        /\ backend[t].cls = "StubModel"
        /\ result[t].kind = "returned"
        /\ Len(messages[t]) > 0

WellFormedChoice(c) ==
    /\ {"index", "message", "finish_reason"} \subseteq DOMAIN c
    /\ {"role", "content"} \subseteq DOMAIN c.message

WellFormedResponse(r) ==
    /\ {"id", "created", "usage", "choices"} \subseteq DOMAIN r
    /\ {"prompt_tokens", "completion_tokens", "total_tokens"} \subseteq DOMAIN r.usage
    /\ Len(r.choices) > 0
    /\ \A i \in 1..Len(r.choices) : WellFormedChoice(r.choices[i])

\* C7: whatever the backend variant and the vendor's reply, a run that
\* returns, returns a well-formed response: id, created, usage with its three
\* counts, and a non-empty choices list whose entries have index, message
\* {role, content} and finish_reason.
C7_ReturnedWellFormed ==
    \A t \in Threads :
        result[t].kind = "returned" => WellFormedResponse(result[t].value)

AbsentFromTable(b) ==
    ModelTypeValue[b.model_type] \notin DOMAIN num_max_token_map(openai_new_api)

\* C8: every entry of the active mode's window table is a positive integer,
\* and a run of an OpenAIModel whose identifier is absent from that table
\* fails with KeyError at the lookup: no vendor call, no response, and the
\* config heap as it was.
C8_UnknownModelFailsClean ==
    /\ [](/\ \A k \in DOMAIN num_max_token_map(openai_new_api) :
               num_max_token_map(openai_new_api)[k] \in Nat \ {0}
          /\ \A t \in Threads :
               (backend[t].cls = "OpenAIModel" /\ AbsentFromTable(backend[t])) =>
                   /\ pc[t] = "idle"
                   /\ sent[t] = NoCall
                   /\ result[t] \in {NoResult, Raised("KeyError", "num_max_token_map")})
    /\ [][\A t \in Threads :
            (OpenAIRunBudget(t) /\ AbsentFromTable(backend[t])) =>
                /\ result'[t] = Raised("KeyError", "num_max_token_map")
                /\ configs' = configs]_vars

\* C8's case: a run failed at the window lookup
C8_Witness ==
    \E t \in Threads :
        /\ backend[t].cls = "OpenAIModel"
        /\ AbsentFromTable(backend[t])
        /\ result[t] = Raised("KeyError", "num_max_token_map")

\* C9: with two factory-made OpenAIModel instances running in separate
\* contexts, every vendor call carries the max_tokens computed from its own
\* messages and its own model's window.
C9_OwnBudgetSent ==
    \A t \in Threads :
        OpenAISent(t) =>
            sent[t].config["max_tokens"] =
                num_max_token_map(openai_new_api)[ModelTypeValue[backend[t].model_type]]
                - PromptTokens(messages[t], tokens[t])

\* C10: in both API modes every identifier the factory gives an OpenAIModel
\* for has an entry in the window table run consults, so run on such a
\* backend never fails at the lookup.
C10_FactoryModelsInTable ==
    \A t \in Threads :
        /\ (lastCreate[t].outcome = "returned" /\ lastCreate[t].ret.cls = "OpenAIModel") =>
               ~AbsentFromTable(lastCreate[t].ret)
        /\ result[t] # Raised("KeyError", "num_max_token_map")

====
